---- MODULE Spec2Model ----
(***************************************************************************)
(* Model of the Mikhail authentication service (Services/Mikhail):         *)
(* AuthServer over the Redis-backed TokenStorage, its RateLimiter and its  *)
(* tokenUpdateWorker.  Concurrent gRPC handlers are the slots of Req; each *)
(* storage call (Redis SET / GET / DEL) is one atomic step, so handlers    *)
(* and the worker interleave between their storage calls as goroutines do. *)
(*                                                                         *)
(* Time is a discrete clock.  Durations keep the order they have in the    *)
(* code (1 minute < 24 hours < 30 days) at a small scale.                  *)
(* Random 32-byte tokens (generate_refresh_token) are modelled as values   *)
(* never drawn before; upstream (Yandex) tokens are a separate small set.  *)
(*                                                                         *)
(* Components are also exercised on their own, each by a specification     *)
(* that calls it with arguments drawn from small sets: RateLimiter         *)
(* (LimiterSpec), InMemoryTokenStorage (StoreSpec) and its sweeper         *)
(* goroutine (SweepSpec), refreshYandexToken (UpstreamSpec) and the        *)
(* encrypt / decrypt pair of RedisTokenStorage (CipherSpec).  SignOutSpec  *)
(* adds SignOut calls to the server, and ShutdownSpec runs main's shutdown *)
(* sequence against calls in flight and the worker.                        *)
(***************************************************************************)
EXTENDS Integers, Sequences, FiniteSets, TLC

(* ------------------------------ bounds --------------------------------- *)
\* concurrent handler slots
NReq == 2
\* SignUp / SignIn / OAuth2Callback invocations explored
MaxLogins == 1
\* RefreshToken invocations explored
MaxRefresh == 3
\* clock range
MaxTime == 1
\* storage faults (failed SET / GET / DEL, corrupted blob) explored
MaxFaults == 1
\* rate-limiter window (1 minute in NewAuthServer), in ticks
Window == 1
\* rate-limiter ceiling (60 in NewAuthServer), scaled
RateLimit == 2
\* access-token lifetime (24 hours), in ticks
AccessTTL == 1
\* session lifetime (30 days), in ticks
SessionTTL == 2
\* capacity of tokenUpdateChan (100 in NewAuthServer), scaled
QueueCap == 2

\* component runs: clock range
MaxClock == 3
\* component runs: largest RateLimiter window and limit tried
MaxWindow == 2
MaxLimit == 2
\* component runs: Allow calls explored
MaxAllowCalls == 4
\* component runs: InMemoryTokenStorage.maxSize (10000 in the code), scaled
MemMaxSize == 2

\* component runs: AES-GCM at a small scale: nonce length (12 bytes in the
\* code), tag length (16 bytes) and the longest plaintext tried
NonceSize == 2
TagSize == 1
MaxPlain == 2

Req == 1..NReq

\* values generate_refresh_token can return, in the order they are drawn
LocalTokens == <<"t1", "t2", "t3">>
\* refresh tokens the upstream provider hands out
YandexTokens == {"y1"}
\* a token no session was ever stored under
Bogus == "zz"
Phones == {"p1"}
\* component runs: refresh tokens held by, or answered to, refreshYandexToken
UpstreamTokens == {"y1", "y2"}
\* component runs: keys presented to the InMemoryTokenStorage
MemKeys == {"k1", "k2", "k3"}
\* component runs: keys presented to the RateLimiter
LimiterKeys == {"x", "y"}

VARIABLES
    now,        \* wall clock
    tokens,     \* Redis: key -> [info, ttl, intact]
    requests,   \* RateLimiter.requests: key -> sequence of timestamps
    queue,      \* tokenUpdateChan
    wpc,        \* tokenUpdateWorker position: "recv" | "delete"
    wcur,       \* the update the worker is applying (<<>> or <<update>>)
    pc,         \* per handler slot: position in RefreshToken
    tok,        \* per slot: req.RefreshToken
    info,       \* per slot: tokenInfo read from storage (<<>> or <<info>>)
    upd,        \* per slot: the tokenUpdateRequest built (<<>> or <<update>>)
    resp,       \* per slot: the response of the last call
    nextTok,    \* how many random tokens have been drawn
    faults,     \* storage faults so far
    logins,     \* SignUp / SignIn / OAuth2Callback invocations so far
    calls,      \* RefreshToken invocations so far
    issued,     \* history: refresh tokens returned to callers
    everStored, \* history: keys ever written to storage
    deleted,    \* history: keys removed by DeleteToken
    applied,    \* history: rotations the worker has finished with
    raced,      \* history: new tokens of rotations enqueued while another
                \* rotation of the same old token was still pending
    wrote,      \* history, per slot: the current call mutated storage or queue
    cause,      \* history, per slot: why the current call was rejected
    phase,      \* the process: "serving" | "draining" | "stopped" | "closed" | "exited"
    clock,      \* component runs: time.Now()
    rl,         \* component runs: a RateLimiter [window, limit, requests]
    rlLog,      \* history: the Allow calls made on rl, [key, at, ok, before]
    mem,        \* component runs: an InMemoryTokenStorage [tokens, maxSize]
    memLog,     \* history: the last two calls made on mem
    memGone,    \* history: keys deleted from mem and not put since
    memRefused, \* history: a put on mem was refused for capacity
    ycall,      \* component runs: the last refreshYandexToken call
    sweeper,    \* component runs: the cleanupExpiredTokens goroutine of mem
    ccall       \* component runs: the last encrypt / decrypt call

\* the state of the server
server == <<now, tokens, requests, queue, wpc, wcur, pc, tok, info, upd, resp,
            nextTok, faults, logins, calls, issued, everStored, deleted, applied,
            raced, wrote, cause, phase>>

\* the state of the components run on their own
bench == <<clock, rl, rlLog, mem, memLog, memGone, memRefused, ycall, sweeper, ccall>>

vars == <<server, bench>>

hist == <<issued, everStored, deleted, applied, raced>>

budget == <<logins, calls>>

(* ------------------------------ data ----------------------------------- *)
NoTTL == 0 - 1

\* *oauth2.Token; a nil pointer is the empty sequence
YandexToken(access, refresh, expiry) ==
    [AccessToken |-> access, RefreshToken |-> refresh, Expiry |-> expiry]

TokenInfo(uid, phone, created, expires, isYandex, ytok) ==
    [UserID |-> uid, PhoneNumber |-> phone, CreatedAt |-> created,
     ExpiresAt |-> expires, IsYandexUser |-> isYandex, YandexToken |-> ytok]

tokenUpdateRequest(old, new, i) == [oldToken |-> old, newToken |-> new, info |-> i]

NoResp == [kind |-> "none", error |-> "", refreshToken |-> ""]
ErrorResp(msg) == [kind |-> "error", error |-> msg, refreshToken |-> ""]
TokenResp(t) == [kind |-> "token", error |-> "", refreshToken |-> t]
\* OAuth2CallbackResponse: the provider's access token and our refresh token
OAuth2Resp(t) == [kind |-> "oauth2", error |-> "", refreshToken |-> t]
\* &emptypb.Empty{}
EmptyResp == [kind |-> "empty", error |-> "", refreshToken |-> ""]
\* (nil, err): the RPC itself fails
RpcError(msg) == [kind |-> "rpc_error", error |-> msg, refreshToken |-> ""]

(* --------------------------- RateLimiter ------------------------------- *)
\* NewRateLimiter(window, limit)
NewRateLimiter(window, limit) == [window |-> window, limit |-> limit, requests |-> << >>]

RECURSIVE FilterAfterInclusive(_, _)
\* faulty variant: a timestamp exactly one window old is kept
FilterAfterInclusive(s, windowStart) ==
    IF s = << >> THEN << >>
    ELSE IF Head(s) >= windowStart
         THEN <<Head(s)>> \o FilterAfterInclusive(Tail(s), windowStart)
         ELSE FilterAfterInclusive(Tail(s), windowStart)

RECURSIVE FilterAfter(_, _)
\* the timestamps t of s with t.After(windowStart), in order
FilterAfter(s, windowStart) ==
    IF s = <<>> THEN <<>>
    ELSE IF Head(s) > windowStart
         THEN <<Head(s)>> \o FilterAfter(Tail(s), windowStart)
         ELSE FilterAfter(Tail(s), windowStart)

Recorded(reqs, key) == IF key \in DOMAIN reqs THEN reqs[key] ELSE <<>>

\* faulty variant: the assignment replaces the whole map
MapSetAlone(m, key, v) == [k \in {key} |-> v]

\* map assignment m[key] = v
MapSet(m, key, v) == [k \in DOMAIN m \cup {key} |-> IF k = key THEN v ELSE m[k]]

\* faulty variant: the ceiling compared with <= instead of <
AllowUnderLimitOffByOne(validRequests, limit) == Len(validRequests) <= limit

\* line 164: len(validRequests) >= rl.limit refuses
AllowUnderLimit(validRequests, limit) == Len(validRequests) < limit

\* faulty variant: an admitted call leaves no timestamp behind
AllowWithoutRecording(reqs, key, t, window, limit) ==
    LET validRequests == FilterAfter(Recorded(reqs, key), t - window)
    IN [ok |-> AllowUnderLimit(validRequests, limit),
        requests |-> MapSet(reqs, key, validRequests)]

\* RateLimiter.Allow: the verdict and the map it leaves behind
Allow(reqs, key, t, window, limit) ==
    LET validRequests == FilterAfter(Recorded(reqs, key), t - window)
    IN IF ~AllowUnderLimit(validRequests, limit)
       THEN [ok |-> FALSE, requests |-> MapSet(reqs, key, validRequests)]
       ELSE [ok |-> TRUE, requests |-> MapSet(reqs, key, Append(validRequests, t))]

(* ------------------------- RedisTokenStorage --------------------------- *)
\* SET key value EX ttl: go-redis sends an expiry only when it is positive
RedisTTL(i, t) == IF i.ExpiresAt - t > 0 THEN i.ExpiresAt ELSE NoTTL

StoreRefreshToken(m, key, i, t) ==
    MapSet(m, key, [info |-> i, ttl |-> RedisTTL(i, t), intact |-> TRUE])

DeleteToken(m, key) == [k \in DOMAIN m \ {key} |-> m[k]]

\* GET + decrypt + unmarshal succeed
Readable(m, key) == key \in DOMAIN m /\ m[key].intact

\* Redis drops the keys whose expiry has been reached
Evict(m, t) == [k \in {x \in DOMAIN m : m[x].ttl = NoTTL \/ m[x].ttl > t} |-> m[k]]

(* ------------------------ InMemoryTokenStorage ------------------------- *)
\* NewInMemoryTokenStorage: an empty map and the ceiling
NewInMemoryTokenStorage == [tokens |-> << >>, maxSize |-> MemMaxSize]

\* faulty variant: the ceiling is checked with > instead of >=
MemStoreErrorLenient(m, i) ==
    IF Cardinality(DOMAIN m.tokens) > m.maxSize THEN "capacity"
    ELSE IF i.UserID = "" \/ i.PhoneNumber = "" THEN "invalid"
    ELSE "nil"

\* lines 87-95: the error StoreRefreshToken returns ("nil" for none)
MemStoreError(m, i) ==
    IF Cardinality(DOMAIN m.tokens) >= m.maxSize THEN "capacity"
    ELSE IF i.UserID = "" \/ i.PhoneNumber = "" THEN "invalid"
    ELSE "nil"

\* faulty variant: a key that is present keeps its old record
MemStoreFirstWins(m, key, i) ==
    IF MemStoreError(m, i) = "nil" /\ key \notin DOMAIN m.tokens
    THEN [m EXCEPT !.tokens = MapSet(m.tokens, key, i)]
    ELSE m

\* lines 83-99: the storage StoreRefreshToken leaves behind
MemStoreRefreshToken(m, key, i) ==
    IF MemStoreError(m, i) = "nil"
    THEN [m EXCEPT !.tokens = MapSet(m.tokens, key, i)]
    ELSE m

\* lines 101-108: <<info>> when present, << >> for "token not found"
MemGetTokenInfo(m, key) ==
    IF key \in DOMAIN m.tokens THEN <<m.tokens[key]>> ELSE << >>

\* lines 110-115
MemDeleteToken(m, key) ==
    [m EXCEPT !.tokens = [k \in DOMAIN m.tokens \ {key} |-> m.tokens[k]]]

\* lines 48-57: the sweeper goroutine is started with the storage: it waits
\* at its select, no tick is pending and stopCleanup is open
NewSweeper == [pc |-> "select", tick |-> FALSE, stopped |-> FALSE]

\* lines 63-71: one sweep of cleanupExpiredTokens at time t
cleanupExpiredTokens(m, t) ==
    [m EXCEPT !.tokens =
        [k \in {x \in DOMAIN m.tokens : ~(t > m.tokens[x].ExpiresAt)} |-> m.tokens[k]]]

(* ------------------------------ Init ----------------------------------- *)
ServerInit ==
    /\ now = 0
    /\ tokens = << >>
    /\ requests = << >>
    /\ queue = << >>
    /\ wpc = "recv"
    /\ wcur = << >>
    /\ pc = [r \in Req |-> "idle"]
    /\ tok = [r \in Req |-> ""]
    /\ info = [r \in Req |-> << >>]
    /\ upd = [r \in Req |-> << >>]
    /\ resp = [r \in Req |-> NoResp]
    /\ nextTok = 0
    /\ faults = 0
    /\ logins = 0
    /\ calls = 0
    /\ issued = {}
    /\ everStored = {}
    /\ deleted = {}
    /\ applied = {}
    /\ raced = {}
    /\ wrote = [r \in Req |-> FALSE]
    /\ cause = [r \in Req |-> "none"]
    /\ phase = "serving"

(* ------------------------- encrypt / decrypt --------------------------- *)
\* a byte, at a small scale
Byte == {0, 1}

RECURSIVE SumSeq(_)
SumSeq(s) == IF s = << >> THEN 0 ELSE Head(s) + SumSeq(Tail(s))

\* byte strings of at most n bytes
Bytes(n) == UNION {[1..k -> Byte] : k \in 0..n}

\* the cipher stream of a nonce at position i
keystream(nonce, i) == (SumSeq(nonce) + i) % Cardinality(Byte)

\* the authentication tag of a ciphertext under a nonce
gcmTag(nonce, ct) ==
    [j \in 1..TagSize |-> (SumSeq(nonce) + SumSeq(ct) + Len(ct) + j) % Cardinality(Byte)]

\* gcm.Seal(dst, nonce, plaintext, nil): dst, then the enciphered plaintext,
\* then the tag
gcmSeal(dst, nonce, plaintext) ==
    LET ct == [i \in 1..Len(plaintext) |->
                  (plaintext[i] + keystream(nonce, i)) % Cardinality(Byte)]
    IN dst \o ct \o gcmTag(nonce, ct)

\* gcm.Open(nil, nonce, ciphertext, nil): the plaintext if the tag verifies
gcmOpen(nonce, ciphertext) ==
    IF Len(ciphertext) < TagSize
    THEN [err |-> "message authentication failed", out |-> << >>]
    ELSE LET n == Len(ciphertext) - TagSize
             ct == SubSeq(ciphertext, 1, n)
             tag == SubSeq(ciphertext, n + 1, Len(ciphertext))
         IN IF tag # gcmTag(nonce, ct)
            THEN [err |-> "message authentication failed", out |-> << >>]
            ELSE [err |-> "nil",
                  out |-> [i \in 1..n |->
                             (ct[i] - keystream(nonce, i) + Cardinality(Byte))
                                 % Cardinality(Byte)]]

\* faulty variant: the nonce is not written in front of the sealed data
encryptWithoutNonce(data, rnd) ==
    IF Len(rnd) < NonceSize
    THEN [err |-> "rand", out |-> << >>]
    ELSE [err |-> "nil", out |-> gcmSeal(<< >>, rnd, data)]

\* encrypt(data); rnd is what rand.Reader delivered: NonceSize bytes, or
\* nothing when the read failed
encrypt(data, rnd) ==
    IF Len(rnd) < NonceSize
    THEN [err |-> "rand", out |-> << >>]
    ELSE [err |-> "nil", out |-> gcmSeal(rnd, rnd, data)]

decrypt(data) ==
    IF Len(data) < NonceSize
    THEN [err |-> "ciphertext too short", out |-> << >>]
    ELSE gcmOpen(SubSeq(data, 1, NonceSize), SubSeq(data, NonceSize + 1, Len(data)))

\* the components run on their own are not in use
BenchIdle ==
    /\ clock = 0
    /\ rl = NewRateLimiter(Window, RateLimit)
    /\ rlLog = << >>
    /\ mem = NewInMemoryTokenStorage
    /\ memLog = << >>
    /\ memGone = {}
    /\ memRefused = FALSE
    /\ ycall = << >>
    /\ sweeper = NewSweeper
    /\ ccall = << >>

Init == ServerInit /\ BenchIdle

Tick ==
    /\ now < MaxTime
    /\ now' = now + 1
    /\ tokens' = Evict(tokens, now + 1)
    /\ UNCHANGED <<requests, queue, wpc, wcur, pc, tok, info, upd, resp,
                   nextTok, faults, budget, hist, wrote, cause>>
    /\ UNCHANGED <<phase, bench>>

(* ------------------------ token generation ----------------------------- *)
\* generate_refresh_token: 32 fresh random bytes, the n-th draw
generate_refresh_token(n) == LocalTokens[n + 1]

CanGenerate == nextTok < Len(LocalTokens)

\* a handler slot whose call has returned
Returned(r) == pc[r] \in {"idle", "done"}

\* the slot that takes the next call: slots only name the concurrent calls,
\* so the lowest one that has returned is used
Free(r) == Returned(r) /\ \A q \in Req : q < r => ~Returned(q)

\* the slot's bookkeeping at the start of a login call
BeginLogin(r) ==
    /\ logins < MaxLogins
    /\ logins' = logins + 1
    /\ tok' = [tok EXCEPT ![r] = ""]
    /\ info' = [info EXCEPT ![r] = << >>]
    /\ upd' = [upd EXCEPT ![r] = << >>]
    /\ UNCHANGED calls

\* the slot's bookkeeping at the start of a RefreshToken call
Begin(r, t) ==
    /\ calls < MaxRefresh
    /\ calls' = calls + 1
    /\ UNCHANGED logins
    /\ tok' = [tok EXCEPT ![r] = t]
    /\ info' = [info EXCEPT ![r] = << >>]
    /\ upd' = [upd EXCEPT ![r] = << >>]

(* ---------------------- SignUp / SignIn / OAuth2 ----------------------- *)
\* faulty variant: the session lives as long as an access token
PasswordSessionShortLived(phone, t) == TokenInfo(phone, phone, t, t + AccessTTL, FALSE, << >>)

\* lines 445-453, 479-487: the session SignUp and SignIn store
PasswordSession(phone, t) == TokenInfo(phone, phone, t, t + SessionTTL, FALSE, << >>)

\* SignUp and SignIn share one body: generate, store synchronously, answer
PasswordLogin(r, phone) ==
    /\ Free(r) /\ CanGenerate
    /\ LET refreshToken == generate_refresh_token(nextTok)
       IN /\ tokens' = StoreRefreshToken(tokens, refreshToken, PasswordSession(phone, now), now)
          /\ resp' = [resp EXCEPT ![r] = TokenResp(refreshToken)]
          /\ issued' = issued \cup {refreshToken}
          /\ everStored' = everStored \cup {refreshToken}
    /\ BeginLogin(r)
    /\ nextTok' = nextTok + 1
    /\ pc' = [pc EXCEPT ![r] = "done"]
    /\ wrote' = [wrote EXCEPT ![r] = TRUE]
    /\ cause' = [cause EXCEPT ![r] = "none"]
    /\ UNCHANGED <<raced, now, requests, queue, wpc, wcur, faults, deleted, applied>>
    /\ UNCHANGED <<phase, bench>>

\* faulty variant: the store's error is ignored and the pair returned
PasswordLoginStoreFailsUnnoticed(r, phone) ==
    /\ Free(r) /\ CanGenerate /\ faults < MaxFaults
    /\ faults' = faults + 1
    /\ BeginLogin(r)
    /\ nextTok' = nextTok + 1
    /\ resp' = [resp EXCEPT ![r] = TokenResp(generate_refresh_token(nextTok))]
    /\ pc' = [pc EXCEPT ![r] = "done"]
    /\ wrote' = [wrote EXCEPT ![r] = FALSE]
    /\ cause' = [cause EXCEPT ![r] = "storage"]
    /\ UNCHANGED <<now, tokens, requests, queue, wpc, wcur, hist>>
    /\ UNCHANGED <<phase, bench>>

\* StoreRefreshToken returns an error: "failed to store refresh token"
PasswordLoginStoreFails(r, phone) ==
    /\ Free(r) /\ CanGenerate /\ faults < MaxFaults
    /\ faults' = faults + 1
    /\ BeginLogin(r)
    /\ nextTok' = nextTok + 1
    /\ resp' = [resp EXCEPT ![r] = ErrorResp("failed to store refresh token")]
    /\ pc' = [pc EXCEPT ![r] = "done"]
    /\ wrote' = [wrote EXCEPT ![r] = FALSE]
    /\ cause' = [cause EXCEPT ![r] = "storage"]
    /\ UNCHANGED <<now, tokens, requests, queue, wpc, wcur, hist>>
    /\ UNCHANGED <<phase, bench>>

SignUp(r, phone) == PasswordLogin(r, phone)

SignIn(r, phone) == PasswordLogin(r, phone)

\* ExchangeCode and fetchYandexUserProfile succeeded: the provider's token
\* carries refresh token yr; the session is stored under a fresh local key
OAuth2Callback(r, yr) ==
    /\ Free(r) /\ CanGenerate
    /\ LET refreshToken == generate_refresh_token(nextTok)
           token == YandexToken("a1", yr, now + AccessTTL)
           tokenInfo == TokenInfo("u1", "e1", now, now + SessionTTL, TRUE, <<token>>)
       IN /\ tokens' = StoreRefreshToken(tokens, refreshToken, tokenInfo, now)
          /\ resp' = [resp EXCEPT ![r] = OAuth2Resp(refreshToken)]
          /\ issued' = issued \cup {refreshToken}
          /\ everStored' = everStored \cup {refreshToken}
    /\ BeginLogin(r)
    /\ nextTok' = nextTok + 1
    /\ pc' = [pc EXCEPT ![r] = "done"]
    /\ wrote' = [wrote EXCEPT ![r] = TRUE]
    /\ cause' = [cause EXCEPT ![r] = "none"]
    /\ UNCHANGED <<raced, now, requests, queue, wpc, wcur, faults, deleted, applied>>
    /\ UNCHANGED <<phase, bench>>

\* lines 527-539: ExchangeCode or the profile fetch fails: the RPC returns an
\* error before any token is generated or stored
OAuth2CallbackFails(r) ==
    /\ Free(r)
    /\ BeginLogin(r)
    /\ resp' = [resp EXCEPT ![r] = RpcError("oauth2 callback failed")]
    /\ pc' = [pc EXCEPT ![r] = "done"]
    /\ wrote' = [wrote EXCEPT ![r] = FALSE]
    /\ cause' = [cause EXCEPT ![r] = "oauth2"]
    /\ UNCHANGED <<now, tokens, requests, queue, wpc, wcur, nextTok, faults, hist>>
    /\ UNCHANGED <<phase, bench>>

(* ------------------------------ SignOut -------------------------------- *)
\* the slot's record of a SignOut call that has returned
SignOutReturn(r) ==
    /\ resp' = [resp EXCEPT ![r] = EmptyResp]
    /\ pc' = [pc EXCEPT ![r] = "done"]
    /\ tok' = [tok EXCEPT ![r] = ""]
    /\ info' = [info EXCEPT ![r] = << >>]
    /\ upd' = [upd EXCEPT ![r] = << >>]
    /\ wrote' = [wrote EXCEPT ![r] = FALSE]
    /\ cause' = [cause EXCEPT ![r] = "none"]

\* faulty variant: SignOut drops every stored session
SignOutRevokesAll(r) ==
    /\ Free(r)
    /\ SignOutReturn(r)
    /\ tokens' = << >>
    /\ UNCHANGED <<now, requests, queue, wpc, wcur, nextTok, faults, budget, hist>>
    /\ UNCHANGED <<phase, bench>>

\* lines 436-438: SignOut answers Empty and touches nothing
SignOut(r) ==
    /\ Free(r)
    /\ SignOutReturn(r)
    /\ UNCHANGED <<now, tokens, requests, queue, wpc, wcur, nextTok, faults, budget, hist>>
    /\ UNCHANGED <<phase, bench>>

(* --------------------------- RefreshToken ------------------------------ *)
\* what a caller can present: a token it was given, nothing, or a made-up one
PresentTokens == issued \cup {"", Bogus}

\* lines 236-242: the limiter refuses
RefreshRateLimited(r, t) ==
    /\ Free(r)
    /\ LET a == Allow(requests, t, now, Window, RateLimit)
       IN /\ ~a.ok
          /\ requests' = a.requests
    /\ Begin(r, t)
    /\ resp' = [resp EXCEPT ![r] = ErrorResp("rate limit exceeded")]
    /\ pc' = [pc EXCEPT ![r] = "done"]
    /\ wrote' = [wrote EXCEPT ![r] = FALSE]
    /\ cause' = [cause EXCEPT ![r] = "rate"]
    /\ UNCHANGED <<now, tokens, queue, wpc, wcur, nextTok, faults, hist>>
    /\ UNCHANGED <<phase, bench>>

\* faulty variant: the empty token is refused before the limiter is consulted
RefreshEmptyBeforeLimiter(r) ==
    /\ Free(r)
    /\ Begin(r, "")
    /\ resp' = [resp EXCEPT ![r] = ErrorResp("refresh token is required")]
    /\ pc' = [pc EXCEPT ![r] = "done"]
    /\ wrote' = [wrote EXCEPT ![r] = FALSE]
    /\ cause' = [cause EXCEPT ![r] = "empty"]
    /\ UNCHANGED <<now, tokens, requests, queue, wpc, wcur, nextTok, faults, hist>>
    /\ UNCHANGED <<phase, bench>>

\* lines 236-251: admitted by the limiter, then the empty token is refused
RefreshEmpty(r) ==
    /\ Free(r)
    /\ LET a == Allow(requests, "", now, Window, RateLimit)
       IN /\ a.ok
          /\ requests' = a.requests
    /\ Begin(r, "")
    /\ resp' = [resp EXCEPT ![r] = ErrorResp("refresh token is required")]
    /\ pc' = [pc EXCEPT ![r] = "done"]
    /\ wrote' = [wrote EXCEPT ![r] = FALSE]
    /\ cause' = [cause EXCEPT ![r] = "empty"]
    /\ UNCHANGED <<now, tokens, queue, wpc, wcur, nextTok, faults, hist>>
    /\ UNCHANGED <<phase, bench>>

\* lines 236-255: admitted, non-empty: on to the storage lookup
RefreshAdmitted(r, t) ==
    /\ Free(r) /\ t # ""
    /\ LET a == Allow(requests, t, now, Window, RateLimit)
       IN /\ a.ok
          /\ requests' = a.requests
    /\ Begin(r, t)
    /\ resp' = [resp EXCEPT ![r] = NoResp]
    /\ pc' = [pc EXCEPT ![r] = "get"]
    /\ wrote' = [wrote EXCEPT ![r] = FALSE]
    /\ cause' = [cause EXCEPT ![r] = "none"]
    /\ UNCHANGED <<now, tokens, queue, wpc, wcur, nextTok, faults, hist>>
    /\ UNCHANGED <<phase, bench>>

\* the call returns: its locals go out of scope
Finish(r, response, why) ==
    /\ resp' = [resp EXCEPT ![r] = response]
    /\ pc' = [pc EXCEPT ![r] = "done"]
    /\ cause' = [cause EXCEPT ![r] = why]
    /\ info' = [info EXCEPT ![r] = << >>]
    /\ upd' = [upd EXCEPT ![r] = << >>]

\* why GetTokenInfo fails on the stored state: redis.Nil, or decrypt error
GetFailure(m, key) == IF key \notin DOMAIN m THEN "absent" ELSE "tampered"

\* faulty variant: the lookup error is returned as the RPC's error, not as a response
RefreshGetInvalidAsRpcError(r) ==
    /\ pc[r] = "get"
    /\ ~Readable(tokens, tok[r])
    /\ Finish(r, RpcError("token not found"), GetFailure(tokens, tok[r]))
    /\ UNCHANGED <<now, tokens, requests, queue, wpc, wcur, tok,
                   nextTok, faults, budget, hist, wrote>>
    /\ UNCHANGED <<phase, bench>>

\* lines 258-265: GetTokenInfo returns an error
RefreshGetInvalid(r) ==
    /\ pc[r] = "get"
    /\ ~Readable(tokens, tok[r])
    /\ Finish(r, ErrorResp("invalid refresh token"), GetFailure(tokens, tok[r]))
    /\ UNCHANGED <<now, tokens, requests, queue, wpc, wcur, tok,
                   nextTok, faults, budget, hist, wrote>>
    /\ UNCHANGED <<phase, bench>>

\* lines 258-265: the Redis GET itself fails (timeout, connection)
RefreshGetBackendError(r) ==
    /\ pc[r] = "get"
    /\ faults < MaxFaults
    /\ faults' = faults + 1
    /\ Finish(r, ErrorResp("invalid refresh token"), "backend")
    /\ UNCHANGED <<now, tokens, requests, queue, wpc, wcur, tok,
                   nextTok, budget, hist, wrote>>
    /\ UNCHANGED <<phase, bench>>

\* line 268: time.Now().After(tokenInfo.ExpiresAt)
Expired(i, t) == t > i.ExpiresAt

\* lines 258-268: the session is read and found expired
RefreshGetExpired(r) ==
    /\ pc[r] = "get"
    /\ Readable(tokens, tok[r])
    /\ Expired(tokens[tok[r]].info, now)
    /\ info' = [info EXCEPT ![r] = <<tokens[tok[r]].info>>]
    /\ pc' = [pc EXCEPT ![r] = "expired"]
    /\ UNCHANGED <<now, tokens, requests, queue, wpc, wcur, tok, upd, resp,
                   nextTok, faults, budget, hist, wrote, cause>>
    /\ UNCHANGED <<phase, bench>>

\* faulty variant: the expired token is reported but never deleted
RefreshExpiredNoDelete(r) ==
    /\ pc[r] = "expired"
    /\ Finish(r, ErrorResp("refresh token expired"), "expired")
    /\ UNCHANGED <<now, tokens, requests, queue, wpc, wcur, tok,
                   nextTok, faults, budget, hist, wrote>>
    /\ UNCHANGED <<phase, bench>>

\* lines 269-275: DeleteToken (its error is dropped), then the expiry answer
RefreshExpired(r) ==
    /\ pc[r] = "expired"
    /\ tokens' = DeleteToken(tokens, tok[r])
    /\ deleted' = deleted \cup ({tok[r]} \cap DOMAIN tokens)
    /\ wrote' = [wrote EXCEPT ![r] = TRUE]
    /\ Finish(r, ErrorResp("refresh token expired"), "expired")
    /\ UNCHANGED <<raced, now, requests, queue, wpc, wcur, tok,
                   nextTok, faults, budget, issued, everStored, applied>>
    /\ UNCHANGED <<phase, bench>>

\* lines 269-275: the Redis DEL fails; the handler answers all the same
RefreshExpiredDeleteFails(r) ==
    /\ pc[r] = "expired"
    /\ faults < MaxFaults
    /\ faults' = faults + 1
    /\ Finish(r, ErrorResp("refresh token expired"), "expired")
    /\ UNCHANGED <<now, tokens, requests, queue, wpc, wcur, tok,
                   nextTok, budget, hist, wrote>>
    /\ UNCHANGED <<phase, bench>>

\* lines 282-300: a Yandex session: start the upstream refresh, or refuse a
\* session that carries no Yandex token
RefreshGetYandex(r) ==
    /\ pc[r] = "get"
    /\ Readable(tokens, tok[r])
    /\ LET tokenInfo == tokens[tok[r]].info
       IN /\ ~Expired(tokenInfo, now)
          /\ tokenInfo.IsYandexUser
          /\ IF tokenInfo.YandexToken # << >>
             THEN /\ info' = [info EXCEPT ![r] = <<tokenInfo>>]
                  /\ pc' = [pc EXCEPT ![r] = "upstream"]
                  /\ UNCHANGED <<upd, resp, cause>>
             ELSE Finish(r, ErrorResp("invalid Yandex token state"), "yandex_state")
    /\ UNCHANGED <<now, tokens, requests, queue, wpc, wcur, tok,
                   nextTok, faults, budget, hist, wrote>>
    /\ UNCHANGED <<phase, bench>>

\* faulty variant: the rotated session is marked as a Yandex session
LocalRotationAsDelegated(old, tokenInfo, fresh, t) ==
    tokenUpdateRequest(old, fresh,
        TokenInfo(tokenInfo.UserID, tokenInfo.PhoneNumber, t, t + AccessTTL,
                  TRUE, << >>))

\* lines 334-349: new tokens for a password session
LocalRotation(old, tokenInfo, fresh, t) ==
    tokenUpdateRequest(old, fresh,
        TokenInfo(tokenInfo.UserID, tokenInfo.PhoneNumber, t, t + AccessTTL,
                  tokenInfo.IsYandexUser, << >>))

\* lines 258-349: a live password session is read and the rotation is built
RefreshGetLocal(r) ==
    /\ pc[r] = "get"
    /\ Readable(tokens, tok[r])
    /\ CanGenerate
    /\ LET tokenInfo == tokens[tok[r]].info
       IN /\ ~Expired(tokenInfo, now)
          /\ ~tokenInfo.IsYandexUser
          /\ info' = [info EXCEPT ![r] = <<tokenInfo>>]
          /\ upd' = [upd EXCEPT ![r] =
                 <<LocalRotation(tok[r], tokenInfo, generate_refresh_token(nextTok), now)>>]
    /\ nextTok' = nextTok + 1
    /\ pc' = [pc EXCEPT ![r] = "enqueue"]
    /\ UNCHANGED <<now, tokens, requests, queue, wpc, wcur, tok, resp,
                   faults, budget, hist, wrote, cause>>
    /\ UNCHANGED <<phase, bench>>

(* ------------------------ refreshYandexToken --------------------------- *)
\* what the token endpoint can answer
UpstreamResponses ==
    [ok : BOOLEAN, access_token : {"a2"},
     refresh_token : YandexTokens \cup {""}, expires_in : {0, AccessTTL}]

\* faulty variant: the answer's refresh token is taken as it comes
UpstreamRefreshTokenVerbatim(yandexToken, response) == response.refresh_token

\* lines 423-427: keep the old refresh token when the answer carries none
UpstreamRefreshToken(yandexToken, response) ==
    IF response.refresh_token = "" THEN yandexToken.RefreshToken
    ELSE response.refresh_token

\* lines 375-434: << >> for an error, <<token>> for the refreshed token
refreshYandexToken(yandexToken, response, t) ==
    IF yandexToken.RefreshToken = "" THEN << >>
    ELSE IF ~response.ok THEN << >>
    ELSE <<YandexToken(response.access_token,
                       UpstreamRefreshToken(yandexToken, response),
                       t + response.expires_in)>>

\* faulty variant: the rotated Yandex session loses its Yandex token
YandexRotationWithoutToken(old, tokenInfo, newYandexToken, t) ==
    tokenUpdateRequest(old, newYandexToken.RefreshToken,
        TokenInfo(tokenInfo.UserID, tokenInfo.PhoneNumber, t, newYandexToken.Expiry,
                  tokenInfo.IsYandexUser, << >>))

\* lines 328-349: the rotation for a Yandex session: keyed by the provider's
\* refresh token, expiring with the provider's access token
YandexRotation(old, tokenInfo, newYandexToken, t) ==
    tokenUpdateRequest(old, newYandexToken.RefreshToken,
        TokenInfo(tokenInfo.UserID, tokenInfo.PhoneNumber, t, newYandexToken.Expiry,
                  tokenInfo.IsYandexUser, <<newYandexToken>>))

\* lines 316-330, 341-349: the upstream refresh delivered a token
RefreshUpstreamOk(r, response) ==
    /\ pc[r] = "upstream"
    /\ LET tokenInfo == info[r][1]
           got == refreshYandexToken(tokenInfo.YandexToken[1], response, now)
       IN /\ got # << >>
          /\ upd' = [upd EXCEPT ![r] = <<YandexRotation(tok[r], tokenInfo, got[1], now)>>]
    /\ pc' = [pc EXCEPT ![r] = "enqueue"]
    /\ UNCHANGED <<now, tokens, requests, queue, wpc, wcur, tok, info, resp,
                   nextTok, faults, budget, hist, wrote, cause>>
    /\ UNCHANGED <<phase, bench>>

\* lines 309-315: the upstream refresh failed
RefreshUpstreamFails(r, response) ==
    /\ pc[r] = "upstream"
    /\ refreshYandexToken(info[r][1].YandexToken[1], response, now) = << >>
    /\ Finish(r, ErrorResp("failed to refresh Yandex token"), "upstream")
    /\ UNCHANGED <<now, tokens, requests, queue, wpc, wcur, tok,
                   nextTok, faults, budget, hist, wrote>>
    /\ UNCHANGED <<phase, bench>>

\* lines 331-332: the context is done while waiting for the upstream
RefreshUpstreamCancelled(r) ==
    /\ pc[r] = "upstream"
    /\ Finish(r, RpcError("context done"), "cancelled")
    /\ UNCHANGED <<now, tokens, requests, queue, wpc, wcur, tok,
                   nextTok, faults, budget, hist, wrote>>
    /\ UNCHANGED <<phase, bench>>

(* ------------------------------ enqueue -------------------------------- *)
\* faulty variant: the send goes through whatever the channel holds
RefreshEnqueueUnbounded(r) ==
    /\ pc[r] = "enqueue"
    /\ queue' = Append(queue, upd[r][1])
    /\ issued' = issued \cup {upd[r][1].newToken}
    /\ raced' = IF \E i \in 1..Len(queue) : queue[i].oldToken = upd[r][1].oldToken
                THEN raced \cup {upd[r][1].newToken} ELSE raced
    /\ wrote' = [wrote EXCEPT ![r] = TRUE]
    /\ Finish(r, TokenResp(upd[r][1].newToken), "none")
    /\ UNCHANGED <<now, tokens, requests, wpc, wcur, tok,
                   nextTok, faults, budget, everStored, deleted, applied>>
    /\ UNCHANGED <<phase, bench>>

\* lines 352-371: the update is sent to the worker and the new pair returned
RefreshEnqueue(r) ==
    /\ pc[r] = "enqueue"
    /\ Len(queue) < QueueCap
    /\ queue' = Append(queue, upd[r][1])
    /\ issued' = issued \cup {upd[r][1].newToken}
    /\ raced' = IF \E i \in 1..Len(queue) : queue[i].oldToken = upd[r][1].oldToken
                THEN raced \cup {upd[r][1].newToken} ELSE raced
    /\ wrote' = [wrote EXCEPT ![r] = TRUE]
    /\ Finish(r, TokenResp(upd[r][1].newToken), "none")
    /\ UNCHANGED <<now, tokens, requests, wpc, wcur, tok,
                   nextTok, faults, budget, everStored, deleted, applied>>
    /\ UNCHANGED <<phase, bench>>

\* faulty variant: the update is sent before the context is looked at
RefreshEnqueueCancelledAfterSend(r) ==
    /\ pc[r] = "enqueue"
    /\ Len(queue) < QueueCap
    /\ queue' = Append(queue, upd[r][1])
    /\ wrote' = [wrote EXCEPT ![r] = TRUE]
    /\ Finish(r, RpcError("context done"), "cancelled")
    /\ UNCHANGED <<now, tokens, requests, wpc, wcur, tok,
                   nextTok, faults, budget, hist>>
    /\ UNCHANGED <<phase, bench>>

\* lines 359-360: the context is done before the send goes through (with a
\* full channel the send cannot go through, and this is the only way out)
RefreshEnqueueCancelled(r) ==
    /\ pc[r] = "enqueue"
    /\ Finish(r, RpcError("context done"),
              IF Len(queue) >= QueueCap THEN "queue_full" ELSE "cancelled")
    /\ UNCHANGED <<now, tokens, requests, queue, wpc, wcur, tok,
                   nextTok, faults, budget, hist, wrote>>
    /\ UNCHANGED <<phase, bench>>

(* ------------------------- tokenUpdateWorker --------------------------- *)
Applied(update, status) ==
    [oldToken |-> update.oldToken, newToken |-> update.newToken,
     yandex |-> update.info.IsYandexUser, status |-> status]

\* faulty variant: the worker deletes the key it has just written
WorkerDeleteKeyNew(update) == update.newToken

\* line 213: the key the worker deletes
WorkerDeleteKey(update) == update.oldToken

\* faulty variant: the worker takes the update sent last
WorkerStoreNewest ==
    /\ wpc = "recv" /\ queue # << >>
    /\ LET update == queue[Len(queue)]
       IN /\ tokens' = StoreRefreshToken(tokens, update.newToken, update.info, now)
          /\ everStored' = everStored \cup {update.newToken}
          /\ wcur' = <<update>>
    /\ queue' = SubSeq(queue, 1, Len(queue) - 1)
    /\ wpc' = "delete"
    /\ UNCHANGED <<raced, now, requests, pc, tok, info, upd, resp, nextTok, faults, budget,
                   issued, deleted, applied, wrote, cause>>
    /\ UNCHANGED <<phase, bench>>

\* lines 201-206: receive the next update and store the new token
WorkerStore ==
    /\ wpc = "recv" /\ queue # << >>
    /\ LET update == Head(queue)
       IN /\ tokens' = StoreRefreshToken(tokens, update.newToken, update.info, now)
          /\ everStored' = everStored \cup {update.newToken}
          /\ wcur' = <<update>>
    /\ queue' = Tail(queue)
    /\ wpc' = "delete"
    /\ UNCHANGED <<raced, now, requests, pc, tok, info, upd, resp, nextTok, faults, budget,
                   issued, deleted, applied, wrote, cause>>
    /\ UNCHANGED <<phase, bench>>

\* faulty variant: the store fails and the old token is deleted all the same
WorkerStoreFailsThenDeletes ==
    /\ wpc = "recv" /\ queue # << >>
    /\ faults < MaxFaults
    /\ faults' = faults + 1
    /\ tokens' = DeleteToken(tokens, Head(queue).oldToken)
    /\ applied' = applied \cup {Applied(Head(queue), "put_failed")}
    /\ queue' = Tail(queue)
    /\ UNCHANGED <<raced, now, requests, wpc, wcur, pc, tok, info, upd, resp,
                   nextTok, budget, issued, everStored, deleted, wrote, cause>>
    /\ UNCHANGED <<phase, bench>>

\* lines 206-210: the store fails; the update is dropped
WorkerStoreFails ==
    /\ wpc = "recv" /\ queue # << >>
    /\ faults < MaxFaults
    /\ faults' = faults + 1
    /\ applied' = applied \cup {Applied(Head(queue), "put_failed")}
    /\ queue' = Tail(queue)
    /\ UNCHANGED <<raced, now, tokens, requests, wpc, wcur, pc, tok, info, upd, resp,
                   nextTok, budget, issued, everStored, deleted, wrote, cause>>
    /\ UNCHANGED <<phase, bench>>

\* lines 213-217: delete the old token
WorkerDelete ==
    /\ wpc = "delete"
    /\ LET key == WorkerDeleteKey(wcur[1])
       IN /\ tokens' = DeleteToken(tokens, key)
          /\ deleted' = deleted \cup ({key} \cap DOMAIN tokens)
    /\ applied' = applied \cup {Applied(wcur[1], "ok")}
    /\ wcur' = << >>
    /\ wpc' = "recv"
    /\ UNCHANGED <<raced, now, requests, queue, pc, tok, info, upd, resp, nextTok, faults,
                   budget, issued, everStored, wrote, cause>>
    /\ UNCHANGED <<phase, bench>>

\* lines 213-215: the delete fails, which is only logged
WorkerDeleteFails ==
    /\ wpc = "delete"
    /\ faults < MaxFaults
    /\ faults' = faults + 1
    /\ applied' = applied \cup {Applied(wcur[1], "delete_failed")}
    /\ wcur' = << >>
    /\ wpc' = "recv"
    /\ UNCHANGED <<raced, now, tokens, requests, queue, pc, tok, info, upd, resp, nextTok,
                   budget, issued, everStored, deleted, wrote, cause>>
    /\ UNCHANGED <<phase, bench>>

Worker == WorkerStore \/ WorkerStoreFails \/ WorkerDelete \/ WorkerDeleteFails

(* ----------------------------- environment ----------------------------- *)
\* a stored blob is altered in Redis: it no longer decrypts
Corrupt(k) ==
    /\ k \in DOMAIN tokens /\ tokens[k].intact
    /\ faults < MaxFaults
    /\ faults' = faults + 1
    /\ tokens' = [tokens EXCEPT ![k].intact = FALSE]
    /\ UNCHANGED <<now, requests, queue, wpc, wcur, pc, tok, info, upd, resp,
                   nextTok, budget, hist, wrote, cause>>
    /\ UNCHANGED <<phase, bench>>

Next ==
    \/ Tick
    \/ Worker
    \/ \E k \in DOMAIN tokens : Corrupt(k)
    \/ \E r \in Req :
        \/ \E phone \in Phones :
            \/ SignUp(r, phone)
            \/ SignIn(r, phone)
            \/ PasswordLoginStoreFails(r, phone)
        \/ \E yr \in YandexTokens : OAuth2Callback(r, yr)
        \/ OAuth2CallbackFails(r)
        \/ \E t \in PresentTokens :
            \/ RefreshRateLimited(r, t)
            \/ RefreshAdmitted(r, t)
        \/ RefreshEmpty(r)
        \/ RefreshGetInvalid(r)
        \/ RefreshGetBackendError(r)
        \/ RefreshGetExpired(r)
        \/ RefreshExpired(r)
        \/ RefreshExpiredDeleteFails(r)
        \/ RefreshGetYandex(r)
        \/ RefreshGetLocal(r)
        \/ \E response \in UpstreamResponses :
            \/ RefreshUpstreamOk(r, response)
            \/ RefreshUpstreamFails(r, response)
        \/ RefreshUpstreamCancelled(r)
        \/ RefreshEnqueue(r)
        \/ RefreshEnqueueCancelled(r)

Spec == Init /\ [][Next]_vars

\* the server with SignOut calls among the others
SignOutNext == Next \/ \E r \in Req : SignOut(r)

SignOutSpec == Init /\ [][SignOutNext]_vars

(* ------------------- component run: RateLimiter ------------------------ *)
\* time passes
ClockTick ==
    /\ clock < MaxClock
    /\ clock' = clock + 1
    /\ UNCHANGED <<server, rl, rlLog, mem, memLog, memGone, memRefused, ycall, sweeper, ccall>>

\* one rl.Allow(key) call, logged with the key's timestamps before and after
AllowCall(key) ==
    /\ Len(rlLog) < MaxAllowCalls
    /\ LET a == Allow(rl.requests, key, clock, rl.window, rl.limit)
       IN /\ rl' = [rl EXCEPT !.requests = a.requests]
          /\ rlLog' = Append(rlLog, [key |-> key, at |-> clock, ok |-> a.ok,
                                     before |-> Recorded(rl.requests, key),
                                     after |-> a.requests[key]])
    /\ UNCHANGED <<server, clock, mem, memLog, memGone, memRefused, ycall, sweeper, ccall>>

\* a limiter of any window and limit, freshly made
LimiterInit ==
    /\ ServerInit
    /\ clock = 0
    /\ rl \in {NewRateLimiter(w, n) : w \in 1..MaxWindow, n \in 1..MaxLimit}
    /\ rlLog = << >>
    /\ mem = NewInMemoryTokenStorage
    /\ memLog = << >>
    /\ memGone = {}
    /\ memRefused = FALSE
    /\ ycall = << >>
    /\ sweeper = NewSweeper
    /\ ccall = << >>

LimiterNext ==
    \/ ClockTick
    \/ \E key \in LimiterKeys : AllowCall(key)

LimiterSpec == LimiterInit /\ [][LimiterNext]_vars

(* --------------- component run: InMemoryTokenStorage ------------------- *)
\* sessions handed to StoreRefreshToken: live or already expired, complete
\* or lacking a required field
MemSessions ==
    {TokenInfo("u1", "p1", 0, e, FALSE, << >>) : e \in {0, MaxClock}}
    \cup {TokenInfo("", "p1", 0, MaxClock, FALSE, << >>),
          TokenInfo("u1", "", 0, MaxClock, FALSE, << >>)}

\* the log keeps the last two calls
Logged(log, entry) ==
    LET l == Append(log, entry) IN IF Len(l) > 2 THEN Tail(l) ELSE l

\* a log entry: the call, what the key held before it, and what it returned
MemEntry(op, key, session, err, result) ==
    [op |-> op, key |-> key, session |-> session, err |-> err, result |-> result,
     held |-> IF key = "" THEN << >> ELSE MemGetTokenInfo(mem, key),
     gone |-> key \in memGone]

MemPut(key, i) ==
    /\ mem' = MemStoreRefreshToken(mem, key, i)
    /\ memLog' = Logged(memLog, MemEntry("put", key, <<i>>, MemStoreError(mem, i), << >>))
    /\ memGone' = memGone \ {key}
    /\ memRefused' = (memRefused \/ MemStoreError(mem, i) = "capacity")
    /\ UNCHANGED <<server, clock, rl, rlLog, ycall, sweeper, ccall>>

MemGet(key) ==
    /\ memLog' = Logged(memLog, MemEntry("get", key, << >>, "nil", MemGetTokenInfo(mem, key)))
    /\ UNCHANGED <<server, clock, rl, rlLog, mem, memGone, memRefused, ycall, sweeper, ccall>>

MemDelete(key) ==
    /\ mem' = MemDeleteToken(mem, key)
    /\ memLog' = Logged(memLog, MemEntry("delete", key, << >>, "nil", << >>))
    /\ memGone' = memGone \cup {key}
    /\ UNCHANGED <<server, clock, rl, rlLog, memRefused, ycall, sweeper, ccall>>

\* the hourly ticker fires
MemCleanup ==
    /\ mem' = cleanupExpiredTokens(mem, clock)
    /\ memLog' = Logged(memLog, MemEntry("sweep", "", << >>, "nil", << >>))
    /\ UNCHANGED <<server, clock, rl, rlLog, memGone, memRefused, ycall, sweeper, ccall>>

StoreInit ==
    /\ ServerInit
    /\ clock = 0
    /\ rl = NewRateLimiter(Window, RateLimit)
    /\ rlLog = << >>
    /\ mem = NewInMemoryTokenStorage
    /\ memLog = << >>
    /\ memGone = {}
    /\ memRefused = FALSE
    /\ ycall = << >>
    /\ sweeper = NewSweeper
    /\ ccall = << >>

StoreNext ==
    \/ ClockTick
    \/ MemCleanup
    \/ \E key \in MemKeys :
        \/ \E i \in MemSessions : MemPut(key, i)
        \/ MemGet(key)
        \/ MemDelete(key)

StoreSpec == StoreInit /\ [][StoreNext]_vars

(* ------------- component run: the sweeper of the storage --------------- *)
\* the hourly ticker delivers a tick; its channel holds one tick at most, and
\* the ticker is stopped when the goroutine returns
TickerFires ==
    /\ sweeper.pc # "returned" /\ ~sweeper.tick
    /\ sweeper' = [sweeper EXCEPT !.tick = TRUE]
    /\ UNCHANGED <<server, clock, rl, rlLog, mem, memLog, memGone, memRefused, ycall, ccall>>

\* line 64: the select takes case <-ticker.C; s.mu.Lock() comes next
SweeperTakesTick ==
    /\ sweeper.pc = "select" /\ sweeper.tick
    /\ sweeper' = [sweeper EXCEPT !.pc = "sweep", !.tick = FALSE]
    /\ UNCHANGED <<server, clock, rl, rlLog, mem, memLog, memGone, memRefused, ycall, ccall>>

\* lines 65-72: under the lock, the records expired at time.Now() are deleted
SweeperSweeps ==
    /\ sweeper.pc = "sweep"
    /\ mem' = cleanupExpiredTokens(mem, clock)
    /\ sweeper' = [sweeper EXCEPT !.pc = "select"]
    /\ UNCHANGED <<server, clock, rl, rlLog, memLog, memGone, memRefused, ycall, ccall>>

\* lines 79-81: Close closes stopCleanup and returns
MemClose ==
    /\ ~sweeper.stopped
    /\ sweeper' = [sweeper EXCEPT !.stopped = TRUE]
    /\ UNCHANGED <<server, clock, rl, rlLog, mem, memLog, memGone, memRefused, ycall, ccall>>

\* lines 73-74: the select takes case <-s.stopCleanup
SweeperReturns ==
    /\ sweeper.pc = "select" /\ sweeper.stopped
    /\ sweeper' = [sweeper EXCEPT !.pc = "returned"]
    /\ UNCHANGED <<server, clock, rl, rlLog, mem, memLog, memGone, memRefused, ycall, ccall>>

\* lines 83-99: a StoreRefreshToken call while the sweeper runs
SweepPut(key, i) ==
    /\ mem' = MemStoreRefreshToken(mem, key, i)
    /\ UNCHANGED <<server, clock, rl, rlLog, memLog, memGone, memRefused, ycall,
                   sweeper, ccall>>

SweepInit ==
    /\ ServerInit
    /\ clock = 0
    /\ rl = NewRateLimiter(Window, RateLimit)
    /\ rlLog = << >>
    /\ mem = NewInMemoryTokenStorage
    /\ memLog = << >>
    /\ memGone = {}
    /\ memRefused = FALSE
    /\ ycall = << >>
    /\ sweeper = NewSweeper
    /\ ccall = << >>

\* sessions of several expiry times are stored while time passes, the
\* ticker fires and the storage is closed
SweepNext ==
    \/ ClockTick
    \/ TickerFires
    \/ SweeperTakesTick
    \/ SweeperSweeps
    \/ MemClose
    \/ SweeperReturns
    \/ \E key \in MemKeys, e \in 0..MaxClock :
          SweepPut(key, TokenInfo("u1", "p1", 0, e, FALSE, << >>))

SweepSpec == SweepInit /\ [][SweepNext]_vars

(* ---------------- component run: refreshYandexToken -------------------- *)
\* one refreshYandexToken call: the credential given, the endpoint's answer,
\* and what the call returned
RefreshYandexCall(yandexToken, response) ==
    /\ ycall' = <<[token |-> yandexToken, response |-> response, at |-> clock,
                   result |-> refreshYandexToken(yandexToken, response, clock)]>>
    /\ UNCHANGED <<server, clock, rl, rlLog, mem, memLog, memGone, memRefused,
                   sweeper, ccall>>

UpstreamInit ==
    /\ ServerInit
    /\ clock = 0
    /\ rl = NewRateLimiter(Window, RateLimit)
    /\ rlLog = << >>
    /\ mem = NewInMemoryTokenStorage
    /\ memLog = << >>
    /\ memGone = {}
    /\ memRefused = FALSE
    /\ ycall = << >>
    /\ sweeper = NewSweeper
    /\ ccall = << >>

UpstreamNext ==
    \/ ClockTick
    \/ \E rt \in UpstreamTokens \cup {""}, expiry \in {0, AccessTTL} :
        \E response \in [ok : BOOLEAN, access_token : {"a2"},
                          refresh_token : UpstreamTokens \cup {""},
                          expires_in : {0, AccessTTL}] :
            RefreshYandexCall(YandexToken("a1", rt, expiry), response)

UpstreamSpec == UpstreamInit /\ [][UpstreamNext]_vars

(* ----------------- component run: encrypt / decrypt -------------------- *)
\* the log keeps the last call of each kind
LastOfEach(log, entry) ==
    SelectSeq(log, LAMBDA e : e.op # entry.op) \o <<entry>>

\* encrypt(data), then decrypt of what it returned (as StoreRefreshToken and
\* GetTokenInfo do through Redis)
SealThenOpen(data, rnd) ==
    /\ LET e == encrypt(data, rnd)
       IN ccall' = LastOfEach(ccall, [op |-> "roundtrip", input |-> data, sealed |-> e,
                                      result |-> IF e.err = "nil" THEN decrypt(e.out)
                                                 ELSE [err |-> "not called", out |-> << >>]])
    /\ UNCHANGED <<server, clock, rl, rlLog, mem, memLog, memGone, memRefused,
                   ycall, sweeper>>

\* decrypt of any byte string found under a key
DecryptCall(data) ==
    /\ ccall' = LastOfEach(ccall, [op |-> "decrypt", input |-> data,
                                   sealed |-> [err |-> "nil", out |-> data],
                                   result |-> decrypt(data)])
    /\ UNCHANGED <<server, clock, rl, rlLog, mem, memLog, memGone, memRefused,
                   ycall, sweeper>>

CipherInit ==
    /\ ServerInit
    /\ clock = 0
    /\ rl = NewRateLimiter(Window, RateLimit)
    /\ rlLog = << >>
    /\ mem = NewInMemoryTokenStorage
    /\ memLog = << >>
    /\ memGone = {}
    /\ memRefused = FALSE
    /\ ycall = << >>
    /\ sweeper = NewSweeper
    /\ ccall = << >>

CipherNext ==
    \/ \E data \in Bytes(MaxPlain), rnd \in [1..NonceSize -> Byte] \cup {<< >>} :
          SealThenOpen(data, rnd)
    \/ \E data \in Bytes(NonceSize + TagSize) : DecryptCall(data)

CipherSpec == CipherInit /\ [][CipherNext]_vars

(* ------------------------ shutdown of the process ---------------------- *)
\* the server's state apart from the phase of the process
serving == <<now, tokens, requests, queue, wpc, wcur, pc, tok, info, upd, resp,
             nextTok, faults, logins, calls, issued, everStored, deleted, applied,
             raced, wrote, cause>>

\* main, <-ctx.Done(): the signal arrives; the listener is closed and
\* GracefulStop begins, so no new call is accepted
ShutdownSignal ==
    /\ phase = "serving"
    /\ phase' = "draining"
    /\ UNCHANGED <<serving, bench>>

\* main, case <-shutdownComplete: GracefulStop returned, every call is over
DrainComplete ==
    /\ phase = "draining"
    /\ \A r \in Req : Returned(r)
    /\ phase' = "stopped"
    /\ UNCHANGED <<serving, bench>>

\* main, case <-shutdownCtx.Done(): the grace period ran out with calls in
\* flight; s.Stop() closes the connections and cancels the calls' contexts
\* and returns without waiting for the handlers
DrainTimeout ==
    /\ phase = "draining"
    /\ \E r \in Req : ~Returned(r)
    /\ phase' = "stopped"
    /\ UNCHANGED <<serving, bench>>

\* AuthServer.Close: tokenUpdateChan is closed, then the Redis client
AuthServerClose ==
    /\ phase = "stopped"
    /\ phase' = "closed"
    /\ UNCHANGED <<serving, bench>>

\* main returns: the process ends and every goroutine with it
MainReturns ==
    /\ phase = "closed"
    /\ phase' = "exited"
    /\ UNCHANGED <<serving, bench>>

\* lines 258-265 after Close: GetTokenInfo fails on the closed client
RefreshGetClosed(r) ==
    /\ phase = "closed"
    /\ pc[r] = "get"
    /\ Finish(r, ErrorResp("invalid refresh token"), "backend")
    /\ UNCHANGED <<now, tokens, requests, queue, wpc, wcur, tok,
                   nextTok, faults, budget, hist, wrote>>
    /\ UNCHANGED <<phase, bench>>

\* lines 351-358 after Close: the send case is taken on the closed channel;
\* the panic is not recovered and ends the process
RefreshEnqueuePanics(r) ==
    /\ phase = "closed"
    /\ pc[r] = "enqueue"
    /\ pc' = [pc EXCEPT ![r] = "panicked"]
    /\ phase' = "exited"
    /\ UNCHANGED <<now, tokens, requests, queue, wpc, wcur, tok, info, upd, resp,
                   nextTok, faults, budget, hist, wrote, cause>>
    /\ UNCHANGED bench

\* lines 201-210 after Close: the range loop receives what the closed
\* channel still holds; the store fails on the closed client
WorkerStoreClosed ==
    /\ phase = "closed"
    /\ wpc = "recv" /\ queue # << >>
    /\ applied' = applied \cup {Applied(Head(queue), "put_failed")}
    /\ queue' = Tail(queue)
    /\ UNCHANGED <<raced, now, tokens, requests, wpc, wcur, pc, tok, info, upd, resp,
                   nextTok, faults, budget, issued, everStored, deleted, wrote, cause>>
    /\ UNCHANGED <<phase, bench>>

\* lines 213-215 after Close: the delete fails on the closed client
WorkerDeleteClosed ==
    /\ phase = "closed"
    /\ wpc = "delete"
    /\ applied' = applied \cup {Applied(wcur[1], "delete_failed")}
    /\ wcur' = << >>
    /\ wpc' = "recv"
    /\ UNCHANGED <<raced, now, tokens, requests, queue, pc, tok, info, upd, resp, nextTok,
                   faults, budget, issued, everStored, deleted, wrote, cause>>
    /\ UNCHANGED <<phase, bench>>

\* the channel is open and the Redis client usable
Running == phase \in {"serving", "draining", "stopped"}

\* password sessions being refreshed while the process is shut down, with
\* no storage fault before Close
ShutdownNext ==
    \/ ShutdownSignal
    \/ DrainComplete
    \/ DrainTimeout
    \/ AuthServerClose
    \/ MainReturns
    \/ WorkerStoreClosed
    \/ WorkerDeleteClosed
    \/ Running /\ WorkerStore
    \/ Running /\ WorkerDelete
    \/ \E r \in Req :
        \/ phase = "serving" /\ \E phone \in Phones : SignUp(r, phone)
        \/ phase = "serving" /\ \E t \in PresentTokens : RefreshAdmitted(r, t)
        \/ Running /\ RefreshGetInvalid(r)
        \/ Running /\ RefreshGetLocal(r)
        \/ Running /\ RefreshEnqueue(r)
        \/ phase # "exited" /\ RefreshEnqueueCancelled(r)
        \/ RefreshGetClosed(r)
        \/ RefreshEnqueuePanics(r)

ShutdownSpec == Init /\ [][ShutdownNext]_vars

(* ============================== claims ================================= *)
\* a step in which slot r takes a RefreshToken call
StartsRefresh(r) == Free(r) /\ calls' = calls + 1

\* the timestamps recorded for key that still lie inside the window at t
InWindow(reqs, key, t) ==
    LET s == Recorded(reqs, key)
    IN Cardinality({i \in 1..Len(s) : s[i] > t - Window})

\* slot r holds the answer of a RefreshToken call that returned a new pair
RefreshSucceeded(r) == pc[r] = "done" /\ resp[r].kind = "token" /\ tok[r] # ""

(* C1: when two RefreshToken calls of one valid token overlap, then once the
   worker has processed both rotations exactly one of the two new refresh
   tokens has a live session: the old token does not fork into two sessions.
   Stated on the step that completes the second rotation, for a second
   rotation that was enqueued while the first was still pending, with no
   storage fault in the run. *)
C1_ExactlyOneSurvivor ==
    [][\A a, b \in applied' :
          (/\ faults' = 0
           /\ a.oldToken = b.oldToken /\ a.newToken # b.newToken
           /\ b.newToken \in raced
           /\ ~({a, b} \subseteq applied))
          => Cardinality({a.newToken, b.newToken} \cap DOMAIN tokens') = 1]_vars

(* C2: whenever RefreshToken has returned new refresh token N, the session
   for N has already been written to the Token Store. *)
C2_StoredBeforeResponse ==
    \A r \in Req : RefreshSucceeded(r) => resp[r].refreshToken \in everStored

\* every rotation request sent to the worker so far, with its fate if known
Sent ==
    {[oldToken |-> a.oldToken, newToken |-> a.newToken, yandex |-> a.yandex] : a \in applied}
    \cup {[oldToken |-> u.oldToken, newToken |-> u.newToken, yandex |-> u.info.IsYandexUser] :
             u \in {queue[i] : i \in 1..Len(queue)} \cup {wcur[i] : i \in 1..Len(wcur)}}

\* the worker has work: an update is queued or half applied
WorkerBusy == queue # << >> \/ wpc = "delete"

FairSpec == Spec /\ WF_vars(Worker)

(* C3 as claimed: a successful refresh of a password session returns a token
   different from the input, and once the worker is done with that rotation
   the input token is unreadable, for good. *)
C3_OldTokenGoneOnceRotated ==
    /\ \A u \in Sent : ~u.yandex => u.newToken # u.oldToken
    /\ \A a \in applied : ~a.yandex => a.oldToken \notin DOMAIN tokens

\* the state part of C3 as amended
OldTokenGoneWhenApplied ==
    /\ \A u \in Sent : ~u.yandex => u.newToken # u.oldToken
    /\ \A a \in applied :
          (~a.yandex /\ a.status = "ok") => a.oldToken \notin DOMAIN tokens

(* C3 amended: a successful refresh of a password session returns a token
   different from the input; under fair scheduling of the worker every
   rotation sent to it is eventually processed, and once a rotation has been
   applied with both its store and its delete succeeding, the input token is
   unreadable and stays so.  (A failed store or delete leaves it readable.) *)
C3_OldTokenGoneOnceApplied ==
    /\ []OldTokenGoneWhenApplied
    /\ WorkerBusy ~> ~WorkerBusy

C3_Witness ==
    \E a \in applied :
        /\ ~a.yandex /\ a.status = "ok"
        /\ a.oldToken \in everStored /\ a.oldToken \notin DOMAIN tokens
        /\ a.newToken \in DOMAIN tokens
        /\ ~WorkerBusy

(* C4: a refresh-token key that was deleted from the Token Store is never
   stored again, and every key a rotation writes differs from the key it
   replaces. *)
C4_KeysNeverReused ==
    /\ deleted \cap DOMAIN tokens = {}
    /\ \A a \in applied : a.status # "put_failed" => a.newToken # a.oldToken

\* slot r is inside a RefreshToken call on a delegated (Yandex) session
Delegated(r) == info[r] # << >> /\ info[r][1].IsYandexUser

Rejections == {"error", "rpc_error"}

(* C5: a RefreshToken call on a delegated session that ends because the
   upstream refresh failed or its context was done (while waiting for the
   upstream or at the send to the worker) returns an error, and no step of
   the call has enqueued a rotation or changed the Token Store. *)
C5_FailedDelegatedRefreshIsClean ==
    [][\A r \in Req :
          /\ StartsRefresh(r) => (tokens' = tokens /\ queue' = queue)
          /\ (pc[r] = "get" /\ pc'[r] = "upstream")
             => (tokens' = tokens /\ queue' = queue)
          /\ (pc[r] = "upstream" /\ pc'[r] = "enqueue")
             => (tokens' = tokens /\ queue' = queue)
          /\ (pc[r] = "upstream" /\ pc'[r] = "done")
             => (resp'[r].kind \in Rejections /\ tokens' = tokens /\ queue' = queue)
          /\ (pc[r] = "enqueue" /\ Delegated(r) /\ pc'[r] = "done" /\ resp'[r].kind # "token")
             => (resp'[r].kind \in Rejections /\ tokens' = tokens /\ queue' = queue)]_vars

C5_Witness ==
    \E r \in Req :
        /\ pc[r] = "done" /\ cause[r] \in {"upstream", "cancelled"}
        /\ resp[r].kind \in Rejections
        /\ Readable(tokens, tok[r]) /\ tokens[tok[r]].info.IsYandexUser
        /\ queue = << >> /\ applied = {}

(* C6 as claimed: RefreshToken on an expired session returns the expiry
   error, enqueues nothing, and the token is absent from the store when the
   call returns. *)
C6_ExpiredTokenAbsentOnReturn ==
    [][\A r \in Req :
          (pc[r] = "expired" /\ pc'[r] = "done")
          => /\ resp'[r] = ErrorResp("refresh token expired")
             /\ queue' = queue
             /\ tok[r] \notin DOMAIN tokens']_vars

(* C6 amended: RefreshToken on a session read as expired returns the expiry
   error and enqueues nothing; it issues one DeleteToken whose error is
   dropped: after a successful delete the token is absent when the call
   returns, after a failed one the store is as it was. *)
C6_ExpiredTokenDeleteAttempted ==
    [][\A r \in Req :
          /\ (/\ pc[r] = "get" /\ pc'[r] # "get" /\ faults' = faults
              /\ Readable(tokens, tok[r]) /\ Expired(tokens[tok[r]].info, now))
             => (pc'[r] = "expired" /\ tokens' = tokens /\ queue' = queue)
          /\ (pc[r] = "expired" /\ pc'[r] = "done")
             => /\ resp'[r] = ErrorResp("refresh token expired")
                /\ queue' = queue
                /\ \/ tok[r] \notin DOMAIN tokens'
                   \/ faults' = faults + 1 /\ tokens' = tokens]_vars

C6_Witness ==
    \E r \in Req :
        /\ pc[r] = "done" /\ resp[r] = ErrorResp("refresh token expired")
        /\ tok[r] \in deleted /\ tok[r] \notin DOMAIN tokens

(* C7: RefreshToken on a token that is no key of the Token Store returns the
   invalid-token error; no step of the call changes the Token Store or
   enqueues a rotation. *)
C7_UnknownTokenNoMutation ==
    [][\A r \in Req :
          /\ StartsRefresh(r) => (tokens' = tokens /\ queue' = queue)
          /\ (pc[r] = "get" /\ pc'[r] # "get" /\ tok[r] \notin DOMAIN tokens)
             => /\ pc'[r] = "done"
                /\ resp'[r] = ErrorResp("invalid refresh token")
                /\ tokens' = tokens /\ queue' = queue]_vars

C7_Witness ==
    \E r \in Req :
        /\ pc[r] = "done" /\ cause[r] = "absent" /\ tok[r] = Bogus
        /\ resp[r] = ErrorResp("invalid refresh token")
        /\ tokens # << >>

(* C8: RefreshToken answers with one and the same outcome whether the token
   is absent, expired or fails decryption. *)
C8_SingleInvalidOutcome ==
    \A r, q \in Req :
        (/\ pc[r] = "done" /\ cause[r] \in {"absent", "expired", "tampered"}
         /\ pc[q] = "done" /\ cause[q] \in {"absent", "expired", "tampered"})
        => resp[r] = resp[q]

\* the timestamps of s inside the window at t, in order
Kept(s, t) == LET InW(x) == x > t - Window IN SelectSeq(s, InW)

\* Allow(key) left the timestamps of every other key alone
OtherKeysKept(key) ==
    \A k \in DOMAIN requests \ {key} : k \in DOMAIN requests' /\ requests'[k] = requests[k]

(* C9 as claimed: RefreshToken with an empty token is rejected as a
   validation error and leaves the Token Store, the rotation queue and the
   Rate Limiter's timestamps unchanged. *)
C9_EmptyTokenNoSideEffects ==
    [][\A r \in Req :
          (StartsRefresh(r) /\ tok'[r] = "")
          => /\ resp'[r] = ErrorResp("refresh token is required")
             /\ tokens' = tokens /\ queue' = queue /\ requests' = requests]_vars

(* C9 amended: RefreshToken with an empty token leaves the Token Store and
   the rotation queue unchanged, but passes the Rate Limiter first: under
   the limit it is rejected as a validation error and its timestamp is
   recorded under the empty key; at the limit it is rejected with the
   rate-limit error. *)
C9_EmptyTokenCountsAgainstLimit ==
    [][\A r \in Req :
          (StartsRefresh(r) /\ tok'[r] = "")
          => /\ pc'[r] = "done"
             /\ tokens' = tokens /\ queue' = queue
             /\ OtherKeysKept("")
             /\ IF InWindow(requests, "", now) < RateLimit
                THEN /\ resp'[r] = ErrorResp("refresh token is required")
                     /\ Recorded(requests', "") = Append(Kept(Recorded(requests, ""), now), now)
                ELSE /\ resp'[r] = ErrorResp("rate limit exceeded")
                     /\ Recorded(requests', "") = Kept(Recorded(requests, ""), now)]_vars

C9_Witness ==
    \E r \in Req :
        /\ pc[r] = "done" /\ tok[r] = ""
        /\ resp[r] = ErrorResp("refresh token is required")
        /\ "" \in DOMAIN requests /\ requests[""] # << >>
        /\ tokens # << >>

(* C10: once the limit of RefreshToken calls with one token value has been
   admitted inside the window, a further call with that value is rejected
   with the rate-limit error before any storage access: the Token Store and
   the rotation queue are unchanged and no timestamp is added. *)
C10_RateLimitedNoSideEffects ==
    [][\A r \in Req :
          (StartsRefresh(r) /\ InWindow(requests, tok'[r], now) >= RateLimit)
          => /\ pc'[r] = "done"
             /\ resp'[r] = ErrorResp("rate limit exceeded")
             /\ tokens' = tokens /\ queue' = queue
             /\ OtherKeysKept(tok'[r])
             /\ Recorded(requests', tok'[r]) = Kept(Recorded(requests, tok'[r]), now)]_vars

C10_Witness ==
    \E r \in Req :
        /\ pc[r] = "done" /\ cause[r] = "rate"
        /\ resp[r] = ErrorResp("rate limit exceeded")
        /\ tok[r] \in DOMAIN tokens
        /\ Len(requests[tok[r]]) = RateLimit

\* the timestamps of s newer than start, in order
KeptSince(s, start) == LET Newer(x) == x > start IN SelectSeq(s, Newer)

(* C11: Allow(key) first discards the key's timestamps that are not newer
   than now - window; it returns true and appends now iff the number of
   timestamps left is strictly below the limit, and otherwise returns false
   and appends nothing. *)
C11_AllowContract ==
    \A i \in 1..Len(rlLog) :
        LET e == rlLog[i]
            kept == KeptSince(e.before, e.at - rl.window)
        IN /\ e.ok <=> Len(kept) < rl.limit
           /\ e.after = IF e.ok THEN Append(kept, e.at) ELSE kept

C11_Witness ==
    \E i, j \in 1..Len(rlLog) :
        /\ ~rlLog[i].ok /\ rlLog[i].after = rlLog[i].before
        /\ rlLog[j].ok
        /\ KeptSince(rlLog[j].before, rlLog[j].at - rl.window) # rlLog[j].before

\* the admitted calls on key before call i whose timestamp is newer than start
AdmittedBefore(i, key, start) ==
    {j \in 1..(i - 1) : rlLog[j].key = key /\ rlLog[j].ok /\ rlLog[j].at > start}

(* C12: for every window w and limit n, at most n Allow calls on one key are
   admitted in any interval (t - w, t]: a call that finds n admitted calls
   inside its window returns false, and a call made once the window has
   fully elapsed since every admitted call returns true again. *)
C12_AtMostLimitPerWindow ==
    /\ \A key \in LimiterKeys, t \in 0..MaxClock :
          Cardinality({j \in 1..Len(rlLog) :
                          /\ rlLog[j].key = key /\ rlLog[j].ok
                          /\ rlLog[j].at > t - rl.window /\ rlLog[j].at <= t}) <= rl.limit
    /\ \A i \in 1..Len(rlLog) :
          LET inWindow == AdmittedBefore(i, rlLog[i].key, rlLog[i].at - rl.window)
          IN /\ Cardinality(inWindow) >= rl.limit => ~rlLog[i].ok
             /\ inWindow = {} => rlLog[i].ok

C12_Witness ==
    /\ rl.limit = 2 /\ Len(rlLog) = 4
    /\ \A i \in 1..4 : rlLog[i].key = "x"
    /\ rlLog[1].ok /\ rlLog[2].ok /\ ~rlLog[3].ok /\ rlLog[4].ok
    /\ rlLog[3].at < rlLog[1].at + rl.window
    /\ rlLog[4].at >= rlLog[2].at + rl.window

(* C13: the rotation queue never holds more than its capacity; a
   RefreshToken call that is at the send while the queue is full stays there
   until a slot frees up, or leaves with the context's error, and then it
   has enqueued nothing and has not changed the Token Store. *)
C13_QueueBounded ==
    /\ [](Len(queue) <= QueueCap)
    /\ [][\A r \in Req :
            (pc[r] = "enqueue" /\ Len(queue) >= QueueCap /\ pc'[r] # "enqueue")
            => /\ pc'[r] = "done"
               /\ resp'[r] = RpcError("context done")
               /\ queue' = queue /\ tokens' = tokens]_vars

C13_Witness ==
    \E r \in Req :
        /\ pc[r] = "done" /\ cause[r] = "queue_full"
        /\ resp[r] = RpcError("context done")
        /\ Len(queue) = QueueCap

\* the last two logged calls on mem are put(K, S) and then get(K)
PutThenGet ==
    /\ Len(memLog) = 2
    /\ memLog[1].op = "put" /\ memLog[2].op = "get"
    /\ memLog[1].key = memLog[2].key

\* a get of a key deleted and not put since reports not-found
GetAfterDelete ==
    \A i \in 1..Len(memLog) :
        (memLog[i].op = "get" /\ memLog[i].gone) => memLog[i].result = << >>

(* C14 as claimed: in the Token Store, get(K) after delete(K) with no put in
   between reports not-found, and put(K, S) immediately followed by get(K)
   returns S, for every key K and session S. *)
C14_PutThenGetReturnsPut ==
    /\ GetAfterDelete
    /\ PutThenGet => memLog[2].result = memLog[1].session

(* C14 amended: get(K) after delete(K) with no put in between reports
   not-found; a put(K, S) that returns no error, immediately followed by
   get(K), returns S; a put that is refused (store at capacity, or S without
   UserID or PhoneNumber) leaves get(K) returning what K held before. *)
C14_AcceptedPutThenGet ==
    /\ GetAfterDelete
    /\ PutThenGet =>
          memLog[2].result = IF memLog[1].err = "nil" THEN memLog[1].session
                             ELSE memLog[1].held

C14_Witness ==
    /\ PutThenGet
    /\ memLog[1].err = "nil" /\ memLog[1].held # << >>
    /\ memLog[1].held # memLog[1].session
    /\ memLog[2].result = memLog[1].session
    /\ memGone # {}

\* the last logged call on mem after the step
LastMemCall == memLog'[Len(memLog')]

(* C15: the in-process Token Store never holds more than maxSize records;
   while it holds maxSize, every put is refused with the capacity error and
   leaves the map as it was; once a delete or a sweep has removed a record,
   a put (of a complete session) is accepted again. *)
C15_CapacityCeiling ==
    /\ [](Cardinality(DOMAIN mem.tokens) <= mem.maxSize)
    /\ [][(memLog' # memLog /\ LastMemCall.op = "put")
          => /\ Cardinality(DOMAIN mem.tokens) >= mem.maxSize
                => (LastMemCall.err = "capacity" /\ mem' = mem)
             /\ (/\ Cardinality(DOMAIN mem.tokens) < mem.maxSize
                 /\ LastMemCall.session[1].UserID # ""
                 /\ LastMemCall.session[1].PhoneNumber # "")
                => /\ LastMemCall.err = "nil"
                   /\ MemGetTokenInfo(mem', LastMemCall.key) = LastMemCall.session]_vars

C15_Witness ==
    /\ memRefused
    /\ Len(memLog) = 2
    /\ memLog[1].op \in {"delete", "sweep"}
    /\ memLog[2].op = "put" /\ memLog[2].err = "nil"
    /\ Cardinality(DOMAIN mem.tokens) = mem.maxSize

\* a step in which slot r takes a SignUp, SignIn or OAuth2Callback call
StartsLogin(r) == Free(r) /\ logins' = logins + 1

(* C16: when SignUp or SignIn returns a token pair, the Token Store holds,
   under the returned refresh token, a session whose UserID is the request's
   phone number, that is no Yandex identity, carries no Yandex token and
   expires one session lifetime (30 days) after its creation; the returned
   refresh token was no key of the store before. *)
C16_LoginStoresSession ==
    [][\A r \in Req :
          (StartsLogin(r) /\ resp'[r].kind = "token")
          => LET rt == resp'[r].refreshToken
             IN /\ rt \notin DOMAIN tokens /\ rt \notin everStored
                /\ Readable(tokens', rt)
                /\ tokens'[rt].info.UserID \in Phones
                /\ tokens'[rt].info.PhoneNumber = tokens'[rt].info.UserID
                /\ ~tokens'[rt].info.IsYandexUser
                /\ tokens'[rt].info.YandexToken = << >>
                /\ tokens'[rt].info.CreatedAt = now
                /\ tokens'[rt].info.ExpiresAt = now + SessionTTL]_vars

C16_Witness ==
    \E r \in Req :
        /\ pc[r] = "done" /\ resp[r].kind = "token" /\ tok[r] = ""
        /\ Readable(tokens, resp[r].refreshToken)
        /\ tokens[resp[r].refreshToken].info.UserID \in Phones
        /\ now > 0

(* C17: when the Token Store put fails during SignUp or SignIn, the call
   returns the storage-error response, carrying no token, and the Token
   Store is as it was. *)
C17_LoginStoreFailure ==
    [][\A r \in Req :
          (StartsLogin(r) /\ faults' = faults + 1)
          => /\ resp'[r] = ErrorResp("failed to store refresh token")
             /\ resp'[r].refreshToken = ""
             /\ tokens' = tokens]_vars

C17_Witness ==
    \E r \in Req :
        /\ pc[r] = "done" /\ cause[r] = "storage"
        /\ resp[r] = ErrorResp("failed to store refresh token")
        /\ tokens = << >> /\ everStored = {}

(* C18: every session held in the Token Store, whoever wrote it, carries a
   Yandex token if and only if its IsYandexUser flag is set. *)
C18_CredentialIffDelegated ==
    \A k \in DOMAIN tokens :
        tokens[k].info.YandexToken # << >> <=> tokens[k].info.IsYandexUser

C18_Witness ==
    \E a \in applied :
        /\ a.yandex /\ a.status = "ok" /\ a.newToken # a.oldToken
        /\ a.newToken \in DOMAIN tokens
        /\ tokens[a.newToken].info.IsYandexUser
        /\ tokens[a.newToken].info.YandexToken # << >>

(* C19: when the token endpoint answers a refresh with success and an empty
   refresh_token, refreshYandexToken returns a credential with the refresh
   token of the credential it was given; when the answer carries a refresh
   token, the returned credential carries that one. *)
C19_RefreshTokenPreserved ==
    \A i \in 1..Len(ycall) :
        (ycall[i].response.ok /\ ycall[i].token.RefreshToken # "")
        => /\ ycall[i].result # << >>
           /\ ycall[i].result[1].RefreshToken =
                 IF ycall[i].response.refresh_token = ""
                 THEN ycall[i].token.RefreshToken
                 ELSE ycall[i].response.refresh_token

C19_Witness ==
    /\ ycall # << >>
    /\ ycall[1].response.ok /\ ycall[1].response.refresh_token = ""
    /\ ycall[1].token.RefreshToken = "y2"
    /\ ycall[1].result # << >> /\ ycall[1].result[1].RefreshToken = "y2"

(* C20: every put into the Redis-backed Token Store sets the key's expiry to
   the session's ExpiresAt, also when ExpiresAt is not after now, so that no
   record is in Redis once its ExpiresAt has passed. *)
C20_ExpiryFollowsSession ==
    \A k \in DOMAIN tokens :
        /\ tokens[k].ttl = tokens[k].info.ExpiresAt
        /\ ~(now > tokens[k].info.ExpiresAt)

\* slot r's record of its call differs across the step
SlotChanged(r) ==
    <<pc[r], resp[r], tok[r], wrote[r], cause[r]>>
        # <<pc'[r], resp'[r], tok'[r], wrote'[r], cause'[r]>>

(* C21: SignOut leaves the Token Store, the rotation queue and the Rate
   Limiter unchanged: every refresh token readable before the call is
   readable after it. *)
C21_SignOutChangesNothing ==
    [][\A r \in Req :
          (Free(r) /\ SlotChanged(r) /\ resp'[r] = EmptyResp)
          => /\ tokens' = tokens /\ queue' = queue /\ requests' = requests
             /\ \A k \in DOMAIN tokens : Readable(tokens, k) => Readable(tokens', k)]_vars

C21_Witness ==
    \E r \in Req :
        /\ pc[r] = "done" /\ resp[r] = EmptyResp
        /\ \E k \in DOMAIN tokens : Readable(tokens, k)
        /\ queue # << >> /\ requests # << >>

(* C22: decrypt of what encrypt returned for a plaintext gives that plaintext
   back without error, and decrypt of an input shorter than the nonce returns
   an error and no plaintext. *)
C22_RoundTrip ==
    \A i \in 1..Len(ccall) :
        /\ (ccall[i].op = "roundtrip" /\ ccall[i].sealed.err = "nil")
              => (ccall[i].result.err = "nil" /\ ccall[i].result.out = ccall[i].input)
        /\ (ccall[i].op = "decrypt" /\ Len(ccall[i].input) < NonceSize)
              => (ccall[i].result.err # "nil" /\ ccall[i].result.out = << >>)

\* a non-empty plaintext went through encrypt and decrypt, and a non-empty
\* input shorter than the nonce was given to decrypt
C22_Witness ==
    /\ \E i \in 1..Len(ccall) :
          /\ ccall[i].op = "roundtrip" /\ ccall[i].sealed.err = "nil"
          /\ Len(ccall[i].input) = MaxPlain
          /\ ccall[i].sealed.out # ccall[i].input
    /\ \E i \in 1..Len(ccall) :
          /\ ccall[i].op = "decrypt"
          /\ ccall[i].input # << >> /\ Len(ccall[i].input) < NonceSize

\* a step in which the worker receives an update from the channel
WorkerReceives == Len(queue') < Len(queue)

\* a step in which the worker finishes the update it holds
WorkerFinishes == wpc = "delete" /\ wpc' = "recv"

(* C23: the worker stores the new session before it deletes the old one.  If
   the store fails nothing is deleted and the Token Store is as it was, so
   the old session stays readable; if the store succeeds and the delete
   fails, the worker goes on to the next update and the new session stays
   stored. *)
C23_PutBeforeDelete ==
    /\ [](wpc = "delete" => (wcur # << >> /\ wcur[1].newToken \in everStored))
    /\ [][/\ WorkerReceives =>
              LET update == Head(queue)
              IN \/ /\ wpc' = "delete" /\ wcur' = <<update>>
                    /\ Readable(tokens', update.newToken)
                    /\ tokens'[update.newToken].info = update.info
                    /\ \A k \in DOMAIN tokens \ {update.newToken} :
                          k \in DOMAIN tokens' /\ tokens'[k] = tokens[k]
                 \/ /\ wpc' = "recv" /\ wcur' = << >>
                    /\ tokens' = tokens
                    /\ Applied(update, "put_failed") \in applied'
          /\ WorkerFinishes =>
              \/ tokens' = DeleteToken(tokens, wcur[1].oldToken)
              \/ /\ tokens' = tokens
                 /\ Applied(wcur[1], "delete_failed") \in applied']_vars

\* a store failed: the old session is still readable and the new token has
\* no session
C23_Witness ==
    \E a \in applied :
        /\ a.status = "put_failed"
        /\ Readable(tokens, a.oldToken)
        /\ a.newToken \notin DOMAIN tokens

(* C24: rotations are applied by one consumer, one at a time and in the order
   they were sent: the channel grows at its tail and is consumed at its head,
   and the worker receives the next update only when the store and the
   delete of the previous one are over. *)
C24_OneAtATimeInOrder ==
    /\ [](Len(wcur) <= 1 /\ (wpc = "delete" <=> wcur # << >>))
    /\ [][queue' # queue =>
              \/ /\ Len(queue') = Len(queue) + 1
                 /\ SubSeq(queue', 1, Len(queue)) = queue
                 /\ wpc' = wpc /\ wcur' = wcur
              \/ /\ queue # << >> /\ queue' = Tail(queue)
                 /\ wpc = "recv" /\ wcur = << >>
                 /\ wpc' = "delete" => wcur' = <<Head(queue)>>
                 /\ wpc' = "recv" => Applied(Head(queue), "put_failed") \in applied'
       ]_vars

\* the worker is between the store and the delete of one update while a
\* different update waits in the channel
C24_Witness ==
    /\ wpc = "delete" /\ queue # << >>
    /\ wcur[1] # queue[1]

(* C25: once the worker has processed a rotation whose store succeeded, a
   session is readable under the rotation's new refresh token (the one the
   RefreshToken call returns), for password sessions and for delegated ones,
   also when the upstream kept its refresh token.  Stated on the step that
   ends the processing: the session the worker stored is still readable
   after it. *)
C25_NewSessionReadableAfterProcessing ==
    [][(WorkerFinishes /\ Readable(tokens, wcur[1].newToken))
          => Readable(tokens', wcur[1].newToken)]_vars

(* C26: every rotation request a RefreshToken call has sent to the worker is
   applied by it (its store is attempted), also the requests that are still
   in the channel when AuthServer.Close is called at shutdown: when the
   process has ended, no request is left in the channel. *)
C26_EveryRotationApplied ==
    phase = "exited" => queue = << >>

(* C27: no RefreshToken call sends on tokenUpdateChan after AuthServer.Close
   has closed it: whether the drain completed or the grace period ran out,
   every call in flight has passed or abandoned its send before the close. *)
C27_NoSendAfterClose ==
    /\ \A r \in Req : pc[r] # "panicked"
    /\ phase = "closed" => \A r \in Req : pc[r] # "enqueue"

\* whom a session belongs to, and of which kind it is
Identity(i) == <<i.UserID, i.PhoneNumber, i.IsYandexUser>>

\* the identities the logins create
Principals == {<<phone, phone, FALSE>> : phone \in Phones} \cup {<<"u1", "e1", TRUE>>}

\* every session stored, queued or held by the worker
SessionsAnywhere ==
    {tokens[k].info : k \in DOMAIN tokens}
    \cup {queue[i].info : i \in 1..Len(queue)}
    \cup {wcur[i].info : i \in 1..Len(wcur)}

(* C28: the session a rotation writes has the UserID, the PhoneNumber and the
   IsYandexUser flag of the session RefreshToken read under the old token:
   the handler reads the stored session, builds the update from it, sends
   that update, and the worker stores its session as sent.  Along a chain of
   refreshes every session keeps the identity its login gave it. *)
C28_RotationKeepsIdentity ==
    /\ [](\A i \in SessionsAnywhere : Identity(i) \in Principals)
    /\ [][/\ \A r \in Req :
              /\ (pc[r] = "get" /\ info'[r] # << >>)
                    => (Readable(tokens, tok[r]) /\ info'[r][1] = tokens[tok[r]].info)
              /\ (pc[r] # "enqueue" /\ pc'[r] = "enqueue")
                    => /\ info'[r] # << >>
                       /\ upd'[r][1].oldToken = tok[r]
                       /\ Identity(upd'[r][1].info) = Identity(info'[r][1])
          /\ Len(queue') > Len(queue)
                => \E r \in Req : pc[r] = "enqueue" /\ queue'[Len(queue')] = upd[r][1]
          /\ (WorkerReceives /\ wpc' = "delete")
                => Identity(tokens'[Head(queue).newToken].info) = Identity(Head(queue).info)
       ]_vars

\* a chain of two rotations was applied and the session at its end is stored
C28_Witness ==
    \E a, b \in applied :
        /\ a.status = "ok" /\ b.status = "ok"
        /\ a.newToken = b.oldToken /\ b.newToken # b.oldToken
        /\ b.newToken \in DOMAIN tokens
        /\ Identity(tokens[b.newToken].info) \in Principals

(* C29: in every reachable state of the RateLimiter no key has more
   timestamps recorded than the limit, and an Allow(key) call leaves the
   timestamps of every other key as they were. *)
C29_LimiterBoundedPerKey ==
    /\ [](\A k \in DOMAIN rl.requests : Len(rl.requests[k]) <= rl.limit)
    /\ [][Len(rlLog') > Len(rlLog) =>
              LET key == rlLog'[Len(rlLog')].key
              IN /\ DOMAIN rl'.requests = DOMAIN rl.requests \cup {key}
                 /\ \A k \in DOMAIN rl.requests \ {key} :
                       Recorded(rl'.requests, k) = rl.requests[k]]_vars

\* one key is at the limit and the call just made was on another key
C29_Witness ==
    /\ Len(rlLog) >= 2
    /\ rlLog[Len(rlLog)].key = "y" /\ rlLog[Len(rlLog)].ok
    /\ rl.limit = MaxLimit
    /\ Len(Recorded(rl.requests, "x")) = rl.limit
    /\ Recorded(rl.requests, "y") # << >>

\* a step in which the sweeper goroutine runs its sweep
SweepRuns == sweeper.pc = "sweep" /\ sweeper'.pc = "select"

\* a sweep deletes exactly the records whose ExpiresAt is before the time of
\* the sweep and leaves the others as they were
SweepDeletesExactlyExpired ==
    [][SweepRuns =>
          /\ DOMAIN mem'.tokens = {k \in DOMAIN mem.tokens : ~(mem.tokens[k].ExpiresAt < clock)}
          /\ \A k \in DOMAIN mem'.tokens : mem'.tokens[k] = mem.tokens[k]
          /\ mem'.maxSize = mem.maxSize]_vars

(* C30: each run of the background sweep deletes exactly the records whose
   ExpiresAt is before the time of the sweep and leaves every unexpired
   record unchanged, and once Close has been called no sweep runs. *)
C30_SweepExactAndStoppedByClose ==
    [][SweepRuns =>
          /\ DOMAIN mem'.tokens = {k \in DOMAIN mem.tokens : ~(mem.tokens[k].ExpiresAt < clock)}
          /\ \A k \in DOMAIN mem'.tokens : mem'.tokens[k] = mem.tokens[k]
          /\ ~sweeper.stopped]_vars

====
